---- MODULE Spec2Model ----
(***************************************************************************)
(* Model of rf/deconvolve.py: the dispatcher deconvolve() and the four     *)
(* deconvolvers deconvt, deconvf, deconv_iter and deconv_multi.            *)
(*                                                                         *)
(* Sample values of input arrays are integers.  Result samples are pairs   *)
(* <<num, den>> standing for num/den; den = 0 stands for a non-finite      *)
(* value (nan or inf, as numpy produces for 0/0 and x/0).                  *)
(*                                                                         *)
(* The library transforms (scipy fft/ifft, the Toeplitz solver, mtspec)    *)
(* are not computed: what the model keeps of them is the length of their   *)
(* result, that they are linear (a zero input gives a zero output), and    *)
(* where they divide by zero.  Every other result is drawn from Kernel.    *)
(***************************************************************************)
EXTENDS Integers, Sequences, FiniteSets, TLC

\* ------------------------------------------------------------------ bounds
MaxLen == 4      \* longest input array
MaxRsp == 2      \* most responses in a direct call of a deconvolver
MaxIt == 2       \* largest itmax
MaxTraces == 4   \* most traces in a stream

\* ------------------------------------------------------- program constants
MaxResponsesMutant == 3 + 1
MaxResponses == 3        \* deconvolve() accepts 1..3 response traces
WinStart == -10          \* default source window for 'time' and 'multi'
WinEnd == 30
WinTaper == 5
DefaultT == 10           \* deconv_multi: T=10, seconds of a taper window
Ofac == 4                \* 1/(1 - olap) with the default olap = 0.75
NoiseEnd == -5           \* end of the pre-event noise window, seconds from the onset

\* --------------------------------------------------------------- helpers
Abs(x) == IF x < 0 THEN -x ELSE x

Min(a, b) == IF a < b THEN a ELSE b

Max(a, b) == IF a > b THEN a ELSE b

Zeros(n) == [i \in 1..n |-> 0]

IsZero(a) == \A i \in 1..Len(a) : a[i] = 0

Reverse(a) == [i \in 1..Len(a) |-> a[Len(a) + 1 - i]]

\* Optional values: None, or an integer.
None == [tag |-> "none", i |-> 0]

Some(n) == [tag |-> "int", i |-> n]

\* normalize='src' of deconvf
SrcNorm == [tag |-> "src", i |-> 0]

\* Result samples.
Fin(n) == <<n, 1>>

NaN == <<0, 0>>

IsFinite(v) == v[2] # 0

FinSeq(a) == [i \in 1..Len(a) |-> Fin(a[i])]

NaNs(n) == [i \in 1..n |-> NaN]

\* x[:n] of a Python sequence
Head_(a, n) == SubSeq(a, 1, Min(Max(n, 0), Len(a)))

\* scipy fft(x, n) reads x truncated or zero-padded to n samples
FftInput(a, n) == IF Len(a) >= n THEN SubSeq(a, 1, n) ELSE a \o Zeros(n - Len(a))

\* scipy.fftpack.next_fast_len: the next 5-smooth number
RECURSIVE Strip(_, _)
Strip(n, p) == IF n % p = 0 THEN Strip(n \div p, p) ELSE n

IsFast(n) == Strip(Strip(Strip(n, 2), 3), 5) = 1

next_fast_len(n) == CHOOSE m \in n..(2 * n) : IsFast(m) /\ \A k \in n..(m - 1) : ~IsFast(k)

\* The values the library transforms may return for a non-degenerate input
\* of n samples: nothing, a positive spike, a result whose largest-magnitude
\* sample is negative.
Kernel(n) == { Zeros(n), [i \in 1..n |-> IF i = 1 THEN 1 ELSE 0], [i \in 1..n |-> IF i = n THEN -2 ELSE 1] }

\* A linear transform: a zero input gives a zero output.
Linear(input, n) == IF IsZero(input) THEN {Zeros(n)} ELSE Kernel(n)

\* All sequences of length n over the set S
SeqN(S, n) == [1..n -> S]

\* The lists of results, one per response, drawn from the sets choices[c]
Lists(choices) == { l \in SeqN(UNION {choices[c] : c \in 1..Len(choices)}, Len(choices)) : \A c \in 1..Len(choices) : l[c] \in choices[c] }

\* ---------------------------------------------------------- normalization
SeqMax(a) == CHOOSE m \in {a[i] : i \in 1..Len(a)} : \A i \in 1..Len(a) : a[i] <= m

MaxAbs(a) == SeqMax([i \in 1..Len(a) |-> Abs(a[i])])

\* v * (1 / m) for a sample v and an integer m
Scale(v, m) == IF ~IsFinite(v) \/ m = 0 THEN NaN ELSE IF m < 0 THEN <<-v[1], v[2] * (-m)>> ELSE <<v[1], v[2] * m>>

\* the largest sample of a result, None when a sample is not finite
Peak(rf, abs) == IF \E i \in 1..Len(rf) : ~IsFinite(rf[i]) THEN None ELSE Some(IF abs THEN MaxAbs([i \in 1..Len(rf) |-> rf[i][1]]) ELSE SeqMax([i \in 1..Len(rf) |-> rf[i][1]]))

\* norm = 1 / peak; every result *= norm
ScaleAll(rf_list, peak) == [c \in 1..Len(rf_list) |-> [i \in 1..Len(rf_list[c]) |-> IF peak.tag = "none" THEN NaN ELSE Scale(rf_list[c][i], peak.i)]]

\* Outcomes of a call; form tells what is returned: the list of results
\* ("list"), the one result itself ("array"), the list and the info
\* dictionary ("list+info")
Ok(rf_list, nit) == [kind |-> "ok", msg |-> "", rf |-> rf_list, nit |-> nit, form |-> "list"]

RaiseMsg(kind, msg) == [kind |-> kind, msg |-> msg, rf |-> <<>>, nit |-> <<>>, form |-> ""]

Raise(kind) == RaiseMsg(kind, "")

\* if normalize is not None: norm = 1 / np.max(np.abs(RF[normalize])); RF *= norm
NormalizeAbs(rf_list, normalize, nit) ==
    IF normalize.tag = "none" THEN Ok(rf_list, nit)
    ELSE IF normalize.i + 1 \notin 1..Len(rf_list) THEN Raise("IndexError")
    ELSE Ok(ScaleAll(rf_list, Peak(rf_list[normalize.i + 1], TRUE)), nit)

\* deconvf: norm = 1. / max(rf_list[normalize])
NormalizeMax(rf_list, normalize, nit) ==
    IF normalize.tag = "none" THEN Ok(rf_list, nit)
    ELSE IF normalize.i + 1 \notin 1..Len(rf_list) THEN Raise("IndexError")
    ELSE Ok(ScaleAll(rf_list, Peak(rf_list[normalize.i + 1], FALSE)), nit)

\* ------------------------------------------------- correlation primitives
_add_zeros(a, numl, numr) == Zeros(numl) \o a \o Zeros(numr)

\* scipy.signal.correlate(a, b, 'valid') for Len(a) >= Len(b)
CorrelateValid(a, b) == [k \in 1..(Len(a) - Len(b) + 1) |-> LET RECURSIVE S(_)
                                                               S(j) == IF j = 0 THEN 0 ELSE a[k + j - 1] * b[j] + S(j - 1)
                                                           IN S(Len(b))]

correlate(a, b) == IF Len(a) >= Len(b) THEN CorrelateValid(a, b) ELSE Reverse(CorrelateValid(b, a))

_acorrt(a, num) == correlate(_add_zeros(a, 0, num - 1), a)

_xcorrtMutant(a, b, num, zero_sample) ==
    LET a1 == IF zero_sample > 0 THEN _add_zeros(a, 2 * Abs(zero_sample), 0)
              ELSE IF zero_sample < 0 THEN _add_zeros(a, 0, 2 * Abs(zero_sample))
              ELSE a
        dif == Len(a1) - Len(b) + 1 - num
    IN  IF dif > 0 THEN correlate(a1, _add_zeros(b, dif \div 2, dif \div 2))
        ELSE correlate(_add_zeros(a1, (-dif) \div 2, (-dif) \div 2), b)

_xcorrt(a, b, num, zero_sample) ==
    LET a1 == IF zero_sample > 0 THEN _add_zeros(a, 2 * Abs(zero_sample), 0)
              ELSE IF zero_sample < 0 THEN _add_zeros(a, 0, 2 * Abs(zero_sample))
              ELSE a
        dif == Len(a1) - Len(b) + 1 - num
    IN  IF dif > 0 THEN correlate(a1, _add_zeros(b, (dif + 1) \div 2, dif \div 2))
        ELSE correlate(_add_zeros(a1, (-dif + 1) \div 2, (-dif) \div 2), b)

__get_length(rsp_list) == Len(rsp_list[1])

\* ------------------------------------------------------------- deconvt
\* RF = solve_toeplitz(STS, STR).  STS / STS[0] is nan for a zero source; the
\* toeplitz package then returns nan, the SciPy fallback refuses the input.
solve_toeplitz(STS, STR) ==
    IF STS[1] = 0 THEN {NaNs(Len(STR))}
    ELSE {FinSeq(k) : k \in Linear(STR, Len(STR))}

deconvt(rsp_list, src, shift, length, normalize) ==
    LET n == IF length.tag = "none" THEN __get_length(rsp_list) ELSE length.i
        STS == _acorrt(src, n)
        STR(c) == _xcorrt(rsp_list[c], src, n, shift)
        ncomp == Len(rsp_list)
    IN  IF \E c \in 1..ncomp : Len(STR(c)) # Len(STS) THEN {Raise("AssertionError")}
        ELSE {NormalizeAbs(l, normalize, <<>>) : l \in Lists([c \in 1..ncomp |-> solve_toeplitz(STS, STR(c))])}
           \cup (IF STS[1] = 0 THEN {Raise("ValueError")} ELSE {})

\* ------------------------------------------------------------- deconvf
\* ifft(ffilt * fft(rsp, nfft) * spec_src_conj / spec_src_water, nfft)[:N]
\* spec_src_water is zero everywhere exactly for a zero fft(src, nfft).
SpectralDivision(rsp, src, N, nfft) ==
    IF IsZero(FftInput(src, nfft)) THEN {NaNs(Min(N, nfft))}
    ELSE {FinSeq(k) : k \in Linear(FftInput(rsp, nfft), Min(N, nfft))}

\* lines 210-213 wrap a single array (flag); lines 227-241 return.  rf_src is
\* bound only when normalize is not None, rf only by the loop of lines 224-226.
deconvf(rsp_list, src, length, normalize, nfft, flag, return_info) ==
    LET N == IF length.tag = "none" THEN __get_length(rsp_list) ELSE length.i
        nf == IF nfft.tag = "none" THEN next_fast_len(N) ELSE nfft.i
        ncomp == Len(rsp_list)
        rf_srcs == IF normalize.tag = "src" THEN SpectralDivision(src, src, N, nf) ELSE {<<>>}
        Normalized(l, rf_src) == IF normalize.tag = "src" THEN Ok(ScaleAll(l, Peak(rf_src, FALSE)), <<>>)
                                 ELSE NormalizeMax(l, normalize, <<>>)
        Returned(out) == IF out.kind # "ok" THEN out
                         ELSE IF return_info THEN (IF normalize.tag = "none" THEN Raise("UnboundLocalError")
                                                   ELSE [out EXCEPT !.form = "list+info"])
                         ELSE IF flag THEN (IF normalize.tag = "none" THEN Raise("UnboundLocalError")
                                            ELSE [out EXCEPT !.form = "array"])
                         ELSE out
    IN  {Returned(Normalized(l, rf_src)) : l \in Lists([c \in 1..ncomp |-> SpectralDivision(rsp_list[c], src, N, nf)]),
                                           rf_src \in rf_srcs}

\* -------------------------------------------------------- deconv_multi
\* scipy.signal.detrend removes the least-squares line: what is left is zero
\* exactly when the samples lie on a line.
IsAffine(a) == \A i \in 1..(Len(a) - 2) : a[i + 2] - a[i + 1] = a[i + 1] - a[i]

detrend(a) == IF IsAffine(a) THEN Zeros(Len(a)) ELSE a

\* number of overlapping taper windows: int(ofac * n / ntap)
Nwin(n, ntap) == (Ofac * n) \div ntap

\* js = int(j * ntap / ofac)
Js(j, ntap) == (j * ntap) \div Ofac

\* len(bit[js:je]) for an array bit of nft samples
SliceLen(js, je, nft) == Max(0, Min(je, nft) - Min(js, nft))

\* bit[js:je] = tap[k] fits: same length, or a one-sample taper broadcast
TaperFits(j, ntap, nft) == ntap = 1 \/ SliceLen(Js(j, ntap), Js(j, ntap) + ntap, nft) = ntap

\* some window passes the guard je < nft
SomeWindow(nwin, ntap, nft) == \E j \in 0..(nwin - 1) : Js(j, ntap) + ntap < nft

\* The first error of one pass of the loop over the components, "" if none.
MultiComponentError(dat, nos, nwav, nft, ntap) ==
    IF Len(nos) > nft THEN "ValueError"                      \* nos_pad[:len(nos)] = nos
    ELSE IF Nwin(Len(nos), ntap) * nft = 0 THEN "ZeroDivisionError"   \* fac = nwav/float(nwin*nft)
    ELSE IF SomeWindow(Nwin(nft, ntap) - 1, ntap, nft) /\ Len(dat) \notin {1, nft} THEN "ValueError"   \* bit*dat
    ELSE IF (Nwin(nft, ntap) - 1) * nft = 0 THEN "ZeroDivisionError"  \* fac = float(nft)/float(nwin*nft)
    ELSE ""

\* recT.real[::-1] of recF = num / (denom + s0)
MultiComponent(dat, nos, src, nft, ntap) ==
    LET s0zero == IsZero(detrend(nos)) \/ ~SomeWindow(Nwin(Len(nos), ntap), ntap, nft)
        denomzero == IsZero(detrend(src))
        numzero == denomzero \/ IsZero(detrend(dat)) \/ ~SomeWindow(Nwin(nft, ntap) - 1, ntap, nft)
    IN  IF s0zero /\ denomzero THEN {NaNs(nft)}
        ELSE IF numzero THEN {FinSeq(Zeros(nft))}
        ELSE {FinSeq(Reverse(k)) : k \in Kernel(nft)}

deconv_multi(rsp, src, nse, ntap, normalize) ==
    LET nft == Len(rsp[1])
        nwav == Len(src)
        ncomp == Len(rsp)
        errs == {c \in 1..ncomp : c > Len(nse) \/ MultiComponentError(rsp[c], nse[c], nwav, nft, ntap) # ""}
        first == CHOOSE c \in errs : \A d \in errs : c <= d
    IN  IF ~(Len(src) < Len(rsp[1])) THEN {Raise("AssertionError")}
        ELSE IF ~(Len(nse[1]) <= Len(rsp[1])) THEN {Raise("AssertionError")}
        ELSE IF \E j \in 0..(Nwin(nwav, ntap) - 1) : ~TaperFits(j, ntap, nft) THEN {Raise("ValueError")}
        ELSE IF Nwin(nwav, ntap) * nft = 0 THEN {Raise("ZeroDivisionError")}
        ELSE IF errs # {} THEN {Raise(IF first > Len(nse) THEN "IndexError" ELSE MultiComponentError(rsp[first], nse[first], nwav, nft, ntap))}
        ELSE {NormalizeAbs(l, normalize, <<>>) : l \in Lists([c \in 1..ncomp |-> MultiComponent(rsp[c], nse[c], src, nft, ntap)])}

\* ------------------------------------------------------------ variables
VARIABLES
    inp,      \* the arguments of the call, as the caller passed them
    pc,       \* position of the call
    stream,   \* the caller's traces
    call,     \* arguments of the deconvolver being run
    calls,    \* the deconvolvers invoked so far
    iter,     \* locals of deconv_iter
    ret       \* what the deconvolver returned or raised

vars == <<inp, pc, stream, call, calls, iter, ret>>

NoRet == [kind |-> "none", msg |-> "", rf |-> <<>>, nit |-> <<>>, form |-> ""]

NoIter == [c |-> 0, it |-> 0, sumsq_i |-> 0, d_error |-> 0, nan |-> FALSE, p0 |-> <<>>, RF_out |-> <<>>, nit |-> <<>>,
           rs |-> <<>>, i1 |-> 0]

Finish(out) ==
    /\ ret' = out
    /\ pc' = IF out.kind = "ok" THEN "returned" ELSE "raised"

\* ---------------------------------------------- the single-pass deconvolvers
CallDeconvt ==
    /\ pc = "call" /\ call.fn = "deconvt"
    /\ \E out \in deconvt(call.rsp, call.src, call.shift, call.length, call.normalize) : Finish(out)
    /\ calls' = Append(calls, "deconvt")
    /\ UNCHANGED <<inp, stream, call, iter>>

CallDeconvf ==
    /\ pc = "call" /\ call.fn = "deconvf"
    /\ \E out \in deconvf(call.rsp, call.src, call.length, call.normalize, call.nfft, call.flag, call.return_info) : Finish(out)
    /\ calls' = Append(calls, "deconvf")
    /\ UNCHANGED <<inp, stream, call, iter>>

CallDeconvMulti ==
    /\ pc = "call" /\ call.fn = "deconv_multi"
    /\ \E out \in deconv_multi(call.rsp, call.src, call.nse, call.ntap, call.normalize) : Finish(out)
    /\ calls' = Append(calls, "deconv_multi")
    /\ UNCHANGED <<inp, stream, call, iter>>

\* ---------------------------------------------------------- deconv_iter
\* Powers and errors are counted in thousandths: sumsq_i = 1 is Unit.
Unit == 10 * 10 * 10

\* the normalized residual powers sumsq the residual may have after a spike
SumsqLevels == {0, 950, 1000, 1200}

\* np.sum(r_flt**2): zero exactly for a zero response (the Gauss filter has no zero)
Power(a) == LET RECURSIVE S(_)
                S(j) == IF j = 0 THEN 0 ELSE a[j] * a[j] + S(j - 1)
            IN S(Len(a))

\* rs[0:stop] of Python
PySlice(a, stop) == IF stop < 0 THEN Head_(a, Len(a) + stop) ELSE Head_(a, stop)

\* rs[0:int(maxlag) - 1] with maxlag = 0.5*nfft
SearchWindow(rs, nfft) == PySlice(rs, (nfft \div 2) - 1)

\* np.argmax(np.abs(w)), as an index from 1
ArgMaxAbs(w) == CHOOSE i \in 1..Len(w) : /\ \A j \in 1..Len(w) : Abs(w[j]) <= Abs(w[i])
                                         /\ \A j \in 1..(i - 1) : Abs(w[j]) < Abs(w[i])

\* the scaled correlations rs of a non-zero residual with the source: none,
\* largest at lag 0, largest at the last lag of the first half
RsKernel(n) == { Zeros(n), [i \in 1..n |-> IF i = 1 THEN 1 ELSE 0], [i \in 1..n |-> IF i = Max(1, n \div 2) THEN -2 ELSE 1] }

LoopConditionMutant == ~iter.nan /\ Abs(iter.d_error) > call.minderr /\ iter.it <= call.itmax

\* while np.abs(d_error) > minderr and it < itmax   (nan > minderr is False)
LoopCondition == ~iter.nan /\ Abs(iter.d_error) > call.minderr /\ iter.it < call.itmax

IterEnter ==
    /\ pc = "call" /\ call.fn = "deconv_iter"
    /\ calls' = Append(calls, "deconv_iter")
    /\ iter' = [NoIter EXCEPT !.c = 1]
    /\ pc' = "iter_begin"
    /\ UNCHANGED <<inp, stream, call, ret>>

\* lines 485-502: the set-up of one component
IterBegin ==
    /\ pc = "iter_begin" /\ iter.c <= Len(call.rsp)
    /\ LET nt == Len(call.src)
           powerR == Power(FftInput(call.rsp[iter.c], nt))
       IN  iter' = [iter EXCEPT !.it = 0, !.sumsq_i = Unit, !.d_error = 100 * powerR * Unit + call.minderr,
                                !.nan = FALSE, !.p0 = Zeros(nt)]
    /\ pc' = "iter_loop"
    /\ UNCHANGED <<inp, stream, call, calls, ret>>

\* lines 504-522: one pass of the loop
IterSpike ==
    /\ pc = "iter_loop" /\ LoopCondition
    /\ LET nt == Len(call.src)
       IN  IF SearchWindow(Zeros(nt), nt) = <<>>
           THEN /\ Finish(Raise("ValueError"))          \* argmax of an empty sequence
                /\ UNCHANGED iter
           ELSE IF IsZero(call.src)
           THEN /\ iter' = [iter EXCEPT !.nan = TRUE, !.it = @ + 1]   \* rs, amp, sumsq are nan
                /\ UNCHANGED <<pc, ret>>
           ELSE /\ \E rs \in (IF iter.sumsq_i = 0 THEN {Zeros(nt)} ELSE RsKernel(nt)) :
                      LET i1 == ArgMaxAbs(SearchWindow(rs, nt))
                          amp == rs[i1]
                      IN  \E sumsq \in (IF amp = 0 THEN {iter.sumsq_i} ELSE SumsqLevels) :
                              iter' = [iter EXCEPT !.rs = rs,
                                                   !.i1 = i1,
                                                   !.p0[i1] = @ + amp,
                                                   !.d_error = 100 * (iter.sumsq_i - sumsq),
                                                   !.sumsq_i = sumsq,
                                                   !.it = @ + 1]
                /\ UNCHANGED <<pc, ret>>
    /\ UNCHANGED <<inp, stream, call, calls>>

\* lines 525-529: filter the spike train, keep it and the iteration count
FilteredSpikes(p0, nan) ==
    IF nan THEN {NaNs(Len(p0))}
    ELSE IF IsZero(p0) THEN {FinSeq(p0)}
    ELSE {FinSeq(k) : k \in Kernel(Len(p0)) \ {Zeros(Len(p0))}}

IterExit ==
    /\ pc = "iter_loop" /\ ~LoopCondition
    /\ \E rf \in FilteredSpikes(iter.p0, iter.nan) :
           iter' = [iter EXCEPT !.RF_out = Append(@, rf), !.nit = Append(@, iter.it), !.c = @ + 1]
    /\ pc' = "iter_begin"
    /\ UNCHANGED <<inp, stream, call, calls, ret>>

\* lines 531-536
IterReturn ==
    /\ pc = "iter_begin" /\ iter.c > Len(call.rsp)
    /\ Finish(NormalizeAbs(iter.RF_out, call.normalize, iter.nit))
    /\ UNCHANGED <<inp, stream, call, calls, iter>>

\* ------------------------------------------------ calls of a deconvolver
\* The arrays a caller passes: of every length, zero or with one spike.
Spike(n) == [i \in 1..n |-> IF i = Min(2, n) THEN 1 ELSE 0]

Arrays == UNION {{Zeros(n), Spike(n)} : n \in 1..MaxLen}

Sources == {Spike(n) : n \in 1..MaxLen}

Noises == {Spike(2), Spike(MaxLen)}

Options(S) == {None} \cup {Some(n) : n \in S}

NoCall == [fn |-> "", rsp |-> <<>>, src |-> <<>>, nse |-> <<>>, shift |-> 0, length |-> None, nfft |-> None,
           normalize |-> None, ntap |-> 1, itmax |-> 0, minderr |-> 0, targets |-> <<>>, kwargs |-> <<>>,
           winsrc |-> <<>>, tshift |-> 0, flag |-> FALSE, return_info |-> FALSE]

\* the first response of a list is any array, the others are not zero
ResponseLists == UNION {{<<a>> \o rest : a \in Arrays, rest \in SeqN(Sources, n - 1)} : n \in 1..MaxRsp}

\* the arguments of a call of fn on the responses rsp, normalized by nm
DirectCall(fn, rsp, src, nm) == [NoCall EXCEPT !.fn = fn, !.rsp = rsp, !.src = src, !.normalize = nm]

InitCall ==
    \E rsp \in ResponseLists, src \in Sources :
    \E nm \in Options(0..(Len(rsp) - 1)) :
        \/ \E sh \in {-1, 0, 1}, ln \in Options(1..MaxLen) :
               call = [DirectCall("deconvt", rsp, src, nm) EXCEPT !.shift = sh, !.length = ln]
        \/ \E ln \in Options(1..MaxLen), nf \in Options(1..MaxLen) :
               call = [DirectCall("deconvf", rsp, src, nm) EXCEPT !.length = ln, !.nfft = nf]
        \/ \E nmf \in {None, Some(0), SrcNorm}, single \in {flag \in BOOLEAN : flag => Len(rsp) = 1}, info \in BOOLEAN :
               /\ nm = None
               /\ call = [DirectCall("deconvf", rsp, src, nmf) EXCEPT !.flag = single, !.return_info = info]
        \/ \E im \in 0..MaxIt, me \in {0, 100} :
               call = [DirectCall("deconv_iter", rsp, src, nm) EXCEPT !.itmax = im, !.minderr = me]
        \/ \E ns \in SeqN(Noises, Len(rsp)), nt \in {2, 4, 8} :
               call = [DirectCall("deconv_multi", rsp, src, nm) EXCEPT !.nse = ns, !.ntap = nt]

InitDeconv ==
    /\ InitCall
    /\ inp = [entry |-> call.fn]
    /\ pc = "call"
    /\ stream = <<>>
    /\ calls = <<>>
    /\ iter = NoIter
    /\ ret = NoRet

\* ------------------------------------------------------------ deconvolve
\* A trace: the last letter of its channel, its start time and onset (seconds),
\* its samples, and stats['iterations'] when set.
Trace(chan, onset, data) == [chan |-> chan, start |-> 0, onset |-> onset, data |-> FinSeq(data), iterations |-> None]

Raw(data) == [i \in 1..Len(data) |-> data[i][1]]

\* tr.times(): the sample times relative to the start of the trace
Times(tr, delta) == [i \in 1..Len(tr.data) |-> (i - 1) * delta]

\* a[k] of Python for -len <= k < len
PyIndex(a, k) == a[(k % Len(a)) + 1]

\* np.searchsorted(array, value, side='left')
searchsorted(array, value) == Cardinality({i \in 1..Len(array) : array[i] < value})

\* None stands for the IndexError of array[idx] with idx == len(array): expr is
\* computed before idx is compared with len(array).
__find_nearest(array, value) ==
    LET idx == searchsorted(array, value)
    IN  IF idx >= Len(array) THEN None
        ELSE IF idx > 0 /\ Abs(value - PyIndex(array, idx - 1)) < Abs(value - PyIndex(array, idx)) THEN Some(idx - 1)
        ELSE Some(idx)

WindowMutant(winsrc, method, onset_sec, lenrsp_sec) ==
    IF winsrc.tag \in {"P", "S"} THEN <<WinStart, WinEnd, WinTaper>> ELSE winsrc.w

\* lines 102-113: the window (start, end, taper) in seconds relative to onset
Window(winsrc, method, onset_sec, lenrsp_sec) ==
    IF winsrc.tag = "P" /\ method \in {"time", "multi"} THEN <<WinStart, WinEnd, WinTaper>>
    ELSE IF winsrc.tag = "S" /\ method \in {"time", "multi"} THEN <<WinStart, WinEnd, WinTaper>>
    ELSE IF winsrc.tag = "P" /\ method = "iter" THEN <<-onset_sec, lenrsp_sec - onset_sec, WinTaper>>
    ELSE IF winsrc.tag = "S" /\ method = "iter" THEN <<-onset_sec, lenrsp_sec - onset_sec, WinTaper>>
    ELSE IF winsrc.tag = "P" THEN <<-onset_sec, lenrsp_sec - onset_sec, WinTaper>>
    ELSE IF winsrc.tag = "S" THEN <<WinStart, lenrsp_sec - onset_sec, WinTaper>>
    ELSE winsrc.w

\* obspy Trace.trim(t0, t1, pad=True, fill_value=0.) for t0, t1 on the sample grid
trim(tr, t0, t1, delta) ==
    LET n == (t1 - t0) \div delta + 1
        at(i) == (t0 - tr.start) \div delta + i
    IN  [tr EXCEPT !.start = t0, !.data = [i \in 1..n |-> IF at(i) \in 1..Len(tr.data) THEN tr.data[at(i)] ELSE Fin(0)]]

\* obspy Trace.taper(max_percentage=None, max_length): a Hann taper over
\* wlen = min(int(max_length * sampling_rate), npts // 2) samples at each end;
\* for wlen = 1 the two end samples are multiplied by 0.
taper(tr, max_length, delta) ==
    LET wlen == Min(max_length \div delta, Len(tr.data) \div 2)
    IN  [tr EXCEPT !.data = [i \in 1..Len(tr.data) |-> IF wlen >= 1 /\ i \in {1, Len(tr.data)} THEN Fin(0) ELSE tr.data[i]]]

\* the indices in the stream of the traces [tr for tr in stream if ...]
SelectSeq_(n, Test(_)) ==
    LET RECURSIVE F(_)
        F(k) == IF k = 0 THEN <<>> ELSE IF Test(k) THEN Append(F(k - 1), k) ELSE F(k - 1)
    IN  F(n)

SourceIndices(st, source_components) == SelectSeq_(Len(st), LAMBDA k : st[k].chan \in source_components)

ResponseIndices(st, response_components) ==
    SelectSeq_(Len(st), LAMBDA k : response_components = <<>> \/ st[k].chan \in response_components[1])

IndexOfMutant(seq, x) == 0

\* rsp.index(src), from 0
IndexOf(seq, x) == (CHOOSE i \in 1..Len(seq) : seq[i] = x /\ \A j \in 1..(i - 1) : seq[j] # x) - 1

Contains(seq, x) == \E i \in 1..Len(seq) : seq[i] = x

DeconvolverOf(method) ==
    CASE method = "time" -> "deconvt"
      [] method = "freq" -> "deconvf"
      [] method = "iter" -> "deconv_iter"
      [] method = "multi" -> "deconv_multi"
      [] OTHER -> "func"

\* RFStream.trim2(-onset_rsp, -5, 'onset') of a copy of the stream: the samples
\* from the start of the trace to 5 s before its onset
PreEventNoise(tr, delta) == Raw(SubSeq(tr.data, 1, Max(0, (tr.onset + NoiseEnd - tr.start) \div delta + 1)))

\* lines 76-124 and the call of lines 125-157
Dispatch ==
    /\ pc = "start"
    /\ LET srcs == SourceIndices(stream, inp.source_components)
           rsp == ResponseIndices(stream, inp.response_components)
           s == srcs[1]
           kwargs == IF inp.normalize = <<>> /\ Contains(rsp, s) THEN <<Some(IndexOf(rsp, s))>> ELSE inp.normalize
           idx == __find_nearest(Times(stream[s], inp.delta), stream[s].onset - stream[s].start)
           onset == stream[s].start + idx.i * inp.delta
           aligned == [k \in 1..Len(stream) |-> IF k = s \/ Contains(rsp, k) THEN [stream[k] EXCEPT !.onset = onset] ELSE stream[k]]
           lenrsp_sec == (Len(stream[s].data) - 1) * inp.delta
           onset_sec == onset - stream[s].start
           winsrc == Window(inp.winsrc, inp.method, onset_sec, lenrsp_sec)
           src == taper(trim(aligned[s], onset + winsrc[1], onset + winsrc[2], inp.delta), winsrc[3], inp.delta)
           prepared == IF Contains(rsp, s) THEN aligned ELSE [aligned EXCEPT ![s] = src]
           tshift == -winsrc[1]
           noise == IF inp.noise = <<>> THEN [i \in 1..Len(rsp) |-> PreEventNoise(aligned[rsp[i]], inp.delta)]
                    ELSE [i \in 1..Len(rsp) |-> Spike(inp.noise[1])]
       IN  IF inp.method \notin {"time", "freq", "iter", "multi", "func"}
           THEN Finish(RaiseMsg("NotImplementedError", "")) /\ UNCHANGED <<stream, call>>
           ELSE IF Len(srcs) # 1
           THEN Finish(RaiseMsg("ValueError", "Invalid number of source components")) /\ UNCHANGED <<stream, call>>
           ELSE IF ~(0 < Len(rsp) /\ Len(rsp) < MaxResponses + 1)
           THEN Finish(RaiseMsg("ValueError", "Invalid number of response components")) /\ UNCHANGED <<stream, call>>
           ELSE IF idx.tag = "none"
           THEN Finish(RaiseMsg("IndexError", "__find_nearest")) /\ UNCHANGED <<stream, call>>
           ELSE /\ stream' = prepared
                /\ call' = [NoCall EXCEPT !.fn = DeconvolverOf(inp.method),
                                          !.rsp = [i \in 1..Len(rsp) |-> Raw(aligned[rsp[i]].data)],
                                          !.src = Raw(src.data),
                                          !.nse = IF inp.method = "multi" THEN noise ELSE <<>>,
                                          !.shift = tshift \div inp.delta - Len(src.data) \div 2,
                                          !.normalize = IF kwargs = <<>> THEN Some(0) ELSE kwargs[1],
                                          !.ntap = DefaultT \div inp.delta,
                                          !.itmax = inp.itmax,
                                          !.minderr = inp.minderr,
                                          !.targets = rsp,
                                          !.kwargs = kwargs,
                                          !.winsrc = winsrc,
                                          !.tshift = tshift]
                /\ pc' = "call"
                /\ UNCHANGED ret
    /\ UNCHANGED <<inp, calls, iter>>

\* line 157: the caller's function; the model's function changes no trace
CallFunc ==
    /\ pc = "call" /\ call.fn = "func"
    /\ Finish(Ok(<<>>, <<>>))
    /\ calls' = Append(calls, "func")
    /\ UNCHANGED <<inp, stream, call, iter>>

WriteBackMutant ==
    /\ pc = "returned" /\ inp.entry = "deconvolve"
    /\ stream' = [k \in 1..Len(stream) |->
                    IF call.fn # "func" /\ Contains(call.targets, k)
                    THEN [stream[k] EXCEPT !.data = ret.rf[1],
                                           !.iterations = IF call.fn = "deconv_iter" THEN Some(ret.nit[1]) ELSE @]
                    ELSE stream[k]]
    /\ pc' = "done"
    /\ UNCHANGED <<inp, call, calls, iter, ret>>

\* lines 129-130, 134-135, 140-142, 154-155 and the return of line 158
WriteBack ==
    /\ pc = "returned" /\ inp.entry = "deconvolve"
    /\ stream' = [k \in 1..Len(stream) |->
                    IF call.fn # "func" /\ Contains(call.targets, k)
                    THEN [stream[k] EXCEPT !.data = ret.rf[IndexOf(call.targets, k) + 1],
                                           !.iterations = IF call.fn = "deconv_iter" THEN Some(ret.nit[IndexOf(call.targets, k) + 1]) ELSE @]
                    ELSE stream[k]]
    /\ pc' = "done"
    /\ UNCHANGED <<inp, call, calls, iter, ret>>

\* The streams a caller passes: traces of one length, every second one zero,
\* the onset of the traces other than the source one second later than the
\* source's.  The caller passes itmax=1, minderr=0 to deconv_iter.
ChannelLists == UNION {SeqN({"Z", "R"}, n) : n \in 0..MaxTraces}

Windows == {[tag |-> "P", w |-> <<>>], [tag |-> "S", w |-> <<>>], [tag |-> "tuple", w |-> <<0, 10, 5>>]}

InitDispatch ==
    /\ \E chans \in ChannelLists, npts \in {2, 4, 12}, onset \in {-3, 2, 7, 8, 100} :
       \E method \in {"time", "freq", "iter", "multi", "func", "wavelet"} :
       \E respc \in {<<>>, <<{"R", "T"}>>, <<{"Z"}>>}, winsrc \in Windows, nm \in {<<>>, <<None>>, <<Some(1)>>} :
       \E noise \in (IF method = "multi" THEN {<<>>, <<2>>, <<npts + 1>>} ELSE {<<>>}) :
           inp = [entry |-> "deconvolve",
                  stream |-> [k \in 1..Len(chans) |-> Trace(chans[k], IF chans[k] = "Z" THEN onset ELSE onset + 1, IF k % 2 = 1 THEN Spike(npts) ELSE Zeros(npts))],
                  method |-> method,
                  source_components |-> {"L", "Z"},
                  response_components |-> respc,
                  winsrc |-> winsrc,
                  normalize |-> nm,
                  noise |-> noise,
                  itmax |-> 1,
                  minderr |-> 0,
                  delta |-> 5]
    /\ stream = inp.stream
    /\ pc = "start"
    /\ call = NoCall
    /\ calls = <<>>
    /\ iter = NoIter
    /\ ret = NoRet

Next ==
    \/ Dispatch
    \/ CallDeconvt
    \/ CallDeconvf
    \/ CallDeconvMulti
    \/ IterEnter
    \/ IterBegin
    \/ IterSpike
    \/ IterExit
    \/ IterReturn
    \/ CallFunc
    \/ WriteBack

Spec == InitDispatch /\ [][Next]_vars

NextDeconv ==
    \/ CallDeconvt
    \/ CallDeconvf
    \/ CallDeconvMulti
    \/ IterEnter
    \/ IterBegin
    \/ IterSpike
    \/ IterExit
    \/ IterReturn

SpecDeconv == InitDeconv /\ [][NextDeconv]_vars

\* Calls of deconv_iter alone.  The interpreter goes on executing the loop:
\* a step that is possible is taken.  The loop reads the arrays only through
\* the power of the response and the width of the search window, so the
\* source is the shortest or the longest one and the responses are of full
\* length; the normalization, which follows the loops, is off.
InitIter ==
    /\ InitDeconv
    /\ call.fn = "deconv_iter"
    /\ Len(call.src) \in {1, MaxLen}
    /\ call.normalize = None
    /\ \A c \in 1..Len(call.rsp) : Len(call.rsp[c]) = MaxLen

NextIter ==
    \/ IterEnter
    \/ IterBegin
    \/ IterSpike
    \/ IterExit
    \/ IterReturn

FairSpecIter == InitIter /\ [][NextIter]_vars /\ WF_vars(NextIter)

\* Calls of deconvt alone.  The correlations do not read the normalization,
\* which follows them: it is off.
InitDeconvt ==
    /\ InitDeconv
    /\ call.fn = "deconvt"
    /\ call.normalize = None

SpecDeconvt == InitDeconvt /\ [][CallDeconvt]_vars

\* ================================================================ claims
IsSource(tr) == tr.chan \in inp.source_components

IsResponse(tr) == inp.response_components = <<>> \/ tr.chan \in inp.response_components[1]

NumSources == Cardinality({k \in 1..Len(inp.stream) : IsSource(inp.stream[k])})

NumResponses == Cardinality({k \in 1..Len(inp.stream) : IsResponse(inp.stream[k])})

ValidMethod == inp.method \in {"time", "freq", "iter", "multi", "func"}

SourceTrace == CHOOSE k \in 1..Len(inp.stream) : IsSource(inp.stream[k])

\* the position of trace k among the response traces, from 0
ResponsesBefore(k) == Cardinality({j \in 1..(k - 1) : IsResponse(inp.stream[j])})

Ended == pc \in {"done", "raised"}

SourceCountError == pc = "raised" /\ ret.kind = "ValueError" /\ ret.msg = "Invalid number of source components"

ResponseCountError == pc = "raised" /\ ret.kind = "ValueError" /\ ret.msg = "Invalid number of response components"

\* C1: a call of deconvolve() with a number of source traces other than one,
\* or with fewer than 1 or more than 3 response traces, ends in an error and
\* runs no deconvolver (for a known method, in the ValueError of that count);
\* a call with one source and 1 to 3 responses raises neither count error.
C1_CountsChecked ==
    Ended =>
        /\ (NumSources # 1 \/ NumResponses \notin 1..3) => (pc = "raised" /\ calls = <<>>)
        /\ (ValidMethod /\ NumSources # 1) => SourceCountError
        /\ (ValidMethod /\ NumSources = 1 /\ NumResponses \notin 1..3) => ResponseCountError
        /\ (NumSources = 1 /\ NumResponses \in 1..3) => (~SourceCountError /\ ~ResponseCountError)

C1_Witness == ResponseCountError /\ NumSources = 1 /\ NumResponses = 4

ConfigurationError ==
    \/ ret.kind = "NotImplementedError"
    \/ SourceCountError
    \/ ResponseCountError
    \/ ret.kind = "AssertionError"

\* C2: when a call of deconvolve() ends in a configuration error, the onset
\* and the samples of every trace of the stream are those of before the call.
C2_ErrorsLeaveStreamUntouched ==
    (pc = "raised" /\ ConfigurationError) =>
        \A k \in 1..Len(stream) : stream[k].onset = inp.stream[k].onset /\ stream[k].data = inp.stream[k].data

C3_Expected ==
    IF inp.normalize # <<>> THEN inp.normalize[1]
    ELSE IF IsResponse(inp.stream[SourceTrace]) THEN Some(ResponsesBefore(SourceTrace))
    ELSE Some(0)

\* C3: the deconvolver is run with the caller's normalize option when there
\* is one; without one it normalizes against the index of the source among
\* the responses when the source is a response, and against index 0
\* otherwise.  (The caller's function gets the option only in the first two
\* cases.)
C3_DefaultNormalize ==
    call.fn # "" =>
        /\ call.fn # "func" => call.normalize = C3_Expected
        /\ call.kwargs = (IF inp.normalize = <<>> /\ ~IsResponse(inp.stream[SourceTrace]) THEN <<>> ELSE <<C3_Expected>>)

C3_Witness == pc = "call" /\ call.fn = "deconvt" /\ inp.normalize = <<>> /\ call.normalize = Some(1)

C4_Deconvolver ==
    CASE inp.method = "time" -> "deconvt"
      [] inp.method = "freq" -> "deconvf"
      [] inp.method = "iter" -> "deconv_iter"
      [] inp.method = "multi" -> "deconv_multi"
      [] inp.method = "func" -> "func"

\* C4: a call of deconvolve() that returns has invoked one deconvolver, the
\* one of its method; for a built-in method the samples of response trace i
\* are result i; a trace has an iteration count exactly when the method is
\* 'iter' and the trace is a response, and it is the count deconv_iter
\* returned for that response.
C4_WriteBack ==
    pc = "done" =>
        /\ calls = <<C4_Deconvolver>>
        /\ \A k \in 1..Len(stream) :
               /\ (inp.method # "func" /\ IsResponse(inp.stream[k])) => stream[k].data = ret.rf[ResponsesBefore(k) + 1]
               /\ stream[k].iterations = (IF inp.method = "iter" /\ IsResponse(inp.stream[k])
                                          THEN Some(iter.nit[ResponsesBefore(k) + 1]) ELSE None)

C4_Witness ==
    /\ pc = "done" /\ inp.method = "iter"
    /\ \E j, k \in 1..Len(stream) : stream[j].iterations = Some(1) /\ stream[k].iterations = Some(0)

ConfiguredLength == IF call.length.tag = "none" THEN Len(call.rsp[1]) ELSE call.length.i

\* C5: every result a deconvolver returns has the configured output length:
\* the length parameter when given, else the length of the first response.
C5_OutputLength ==
    pc = "returned" => \A c \in 1..Len(ret.rf) : Len(ret.rf[c]) = ConfiguredLength

Designated == ret.rf[call.normalize.i + 1]

\* C6: after a call with a normalization index, the designated result (when
\* its samples are finite) has maximum absolute value 1.
C6_UnitPeak ==
    (pc = "returned" /\ call.normalize.tag = "int" /\ \A i \in 1..Len(Designated) : IsFinite(Designated[i])) =>
        /\ \E i \in 1..Len(Designated) : Abs(Designated[i][1]) = Designated[i][2]
        /\ \A i \in 1..Len(Designated) : Abs(Designated[i][1]) <= Designated[i][2]

\* C7: the loop of deconv_iter ends for every response; the iteration count
\* stays within 0..itmax, in the loop and as recorded; at it = itmax the loop
\* is left in the normal way, recording itmax.
C7_LoopTerminates ==
    /\ [](iter.it \in 0..call.itmax /\ \A c \in 1..Len(iter.nit) : iter.nit[c] \in 0..call.itmax)
    /\ [][(pc = "iter_loop" /\ iter.it = call.itmax) => (pc' = "iter_begin" /\ iter'.nit = Append(iter.nit, call.itmax))]_vars
    /\ ((pc = "iter_loop") ~> (pc # "iter_loop"))
    /\ <>(pc \in {"returned", "raised"})

C7_Witness == pc = "iter_begin" /\ call.itmax = MaxIt /\ iter.nit # <<>> /\ iter.nit[Len(iter.nit)] = call.itmax

\* C8: deconv_multi raises its documented error when the source is not
\* strictly shorter than some response, or some noise sequence is longer
\* than the response it accompanies.
C8_EveryPairChecked ==
    (call.fn = "deconv_multi" /\ pc \in {"returned", "raised"}
        /\ \E c \in 1..Len(call.rsp) : ~(Len(call.src) < Len(call.rsp[c])) \/ Len(call.nse[c]) > Len(call.rsp[c]))
    => (pc = "raised" /\ ret.kind = "AssertionError")

\* the time of the source sample nearest to the source's onset
Distance(k) == Abs((inp.stream[SourceTrace].onset - inp.stream[SourceTrace].start) - (k - 1) * inp.delta)

NearestTimes ==
    {inp.stream[SourceTrace].start + (k - 1) * inp.delta : k \in {i \in 1..Len(inp.stream[SourceTrace].data) : \A j \in 1..Len(inp.stream[SourceTrace].data) : Distance(i) <= Distance(j)}}

\* C9: a call of deconvolve() that passes the checks of method and counts
\* does not raise while aligning the onset, and sets the onset of the source
\* and of every response to the time of the source sample nearest to the
\* source's onset.
C9_OnsetSnapped ==
    (pc # "start" /\ ValidMethod /\ NumSources = 1 /\ NumResponses \in 1..3) =>
        /\ ~(pc = "raised" /\ ret.msg = "__find_nearest")
        /\ \A k \in 1..Len(stream) : (IsSource(inp.stream[k]) \/ IsResponse(inp.stream[k])) => stream[k].onset \in NearestTimes

\* C10: a deconvolver that returns gives, for a non-zero source, a zero
\* result for every response that is all zeros.
C10_ZeroResponse ==
    (pc = "returned" /\ ~IsZero(call.src)) =>
        \A c \in 1..Len(call.rsp) : IsZero(call.rsp[c]) => \A i \in 1..Len(ret.rf[c]) : ret.rf[c][i][1] = 0 /\ IsFinite(ret.rf[c][i])

\* the decrease of the normalized residual power over the last pass of the
\* loop, in thousandths (d_error is 100 times it)
LastDecrease == iter.d_error \div 100

\* C11: deconv_iter adds another spike after a pass of the loop only while
\* the iteration count is below itmax and the decrease of the normalized
\* residual power over that pass is not below minderr.  (Stated for the
\* passes that did not increase the residual power.)
C11_StopCriterion ==
    [][(pc = "iter_loop" /\ iter.it >= 1 /\ LastDecrease >= 0 /\ iter'.it = iter.it + 1)
        => (iter.it < call.itmax /\ LastDecrease >= call.minderr)]_vars

\* seconds from the start of the source trace to its onset, as aligned
OnsetSec == stream[SourceTrace].onset - inp.stream[SourceTrace].start

\* seconds from the first to the last sample of the source trace
Duration == (Len(inp.stream[SourceTrace].data) - 1) * inp.delta

C12_Expected ==
    IF inp.winsrc.tag = "tuple" THEN <<inp.winsrc.w[1], inp.winsrc.w[2]>>
    ELSE IF inp.method \in {"time", "multi"} THEN <<-10, 30>>
    ELSE <<-OnsetSec, Duration - OnsetSec>>

\* C12: for methods 'time' and 'multi' a phase letter gives the source
\* window from 10 s before to 30 s after the onset, for method 'iter' the
\* window from the start to the end of the source trace; a window tuple of
\* the caller is used as it is.  The source passed to the deconvolver spans
\* that window.
C12_DefaultWindows ==
    call.fn \in {"deconvt", "deconv_iter", "deconv_multi"} =>
        /\ <<call.winsrc[1], call.winsrc[2]>> = C12_Expected
        /\ inp.winsrc.tag = "tuple" => call.winsrc = inp.winsrc.w
        /\ Len(call.src) = (C12_Expected[2] - C12_Expected[1]) \div inp.delta + 1
        /\ call.tshift = -C12_Expected[1]

C12_Witness ==
    /\ pc = "call" /\ call.fn = "deconv_iter" /\ inp.winsrc.tag = "S"
    /\ call.winsrc[1] < 0 /\ call.winsrc[2] > 0 /\ call.winsrc[2] - call.winsrc[1] = Duration

\* C13: a call of deconvf with a single array or a list, normalize None, a
\* valid index or 'src', and return_info False or True returns: the list and
\* the info dictionary with return_info, else the deconvolution of the single
\* array, else the list.
C13_DeconvfOptions ==
    (call.fn = "deconvf" /\ pc \in {"returned", "raised"}) =>
        /\ pc = "returned"
        /\ ret.form = (IF call.return_info THEN "list+info" ELSE IF call.flag THEN "array" ELSE "list")
        /\ Len(ret.rf) = Len(call.rsp)

\* C14: in a call of deconvt the autocorrelation of the source and the
\* cross-correlation of every response with the source have as many entries
\* as the output length, whatever the lengths of source and response and
\* the shift; the call does not fail the assertion on their lengths.
C14_CorrelationLengths ==
    call.fn = "deconvt" =>
        /\ Len(_acorrt(call.src, ConfiguredLength)) = ConfiguredLength
        /\ \A c \in 1..Len(call.rsp) : Len(_xcorrt(call.rsp[c], call.src, ConfiguredLength, call.shift)) = ConfiguredLength
        /\ ret.kind # "AssertionError"

C14_Witness ==
    /\ pc = "returned" /\ call.fn = "deconvt" /\ call.shift < 0
    /\ Len(call.rsp) = 2 /\ Len(call.rsp[1]) < Len(call.src) /\ Len(call.rsp[2]) > Len(call.src)
    /\ call.length = Some(2)

\* C15: after a call of deconvolve() that returns, a source trace that is
\* not a response has the samples it had before the call.
C15_SourceUntouched ==
    pc = "done" =>
        \A k \in 1..Len(stream) :
            (IsSource(inp.stream[k]) /\ ~IsResponse(inp.stream[k])) => stream[k].data = inp.stream[k].data

\* the lags of the first half of a trace of nt samples, as indices from 1
FirstHalf(nt) == 1..(nt \div 2)

\* C16: for a source of two samples or more, deconv_iter does not fail for
\* want of a lag to search, and after every pass of the loop the lag of the
\* spike is one of largest absolute correlation among the lags of the first
\* half of the trace.
C16_LagSearch ==
    (call.fn = "deconv_iter" /\ Len(call.src) >= 2) =>
        /\ ~(pc = "raised" /\ ret.kind = "ValueError")
        /\ (pc = "iter_loop" /\ iter.it >= 1 /\ ~iter.nan) =>
               /\ iter.i1 \in FirstHalf(Len(call.src))
               /\ \A j \in FirstHalf(Len(call.src)) : Abs(iter.rs[j]) <= Abs(iter.rs[iter.i1])

\* the onset the caller gave the source trace lies between its first and
\* its last sample
OnsetInside ==
    /\ inp.stream[SourceTrace].onset >= inp.stream[SourceTrace].start
    /\ inp.stream[SourceTrace].onset <= inp.stream[SourceTrace].start + Duration

\* C17: the source window deconvolve() derives from a phase letter, for an
\* onset inside the trace, has start < end and a taper of at most half its
\* length.
C17_WindowInvariant ==
    (call.fn # "" /\ inp.winsrc.tag \in {"P", "S"} /\ OnsetInside) =>
        /\ call.winsrc[1] < call.winsrc[2]
        /\ 2 * call.winsrc[3] <= call.winsrc[2] - call.winsrc[1]

\* the preconditions of deconv_multi, for responses of one length
MultiPreconditions ==
    /\ call.fn = "deconv_multi"
    /\ \A c \in 1..Len(call.rsp) :
           /\ Len(call.rsp[c]) = Len(call.rsp[1])
           /\ Len(call.src) < Len(call.rsp[c])
           /\ Len(call.nse[c]) <= Len(call.rsp[c])

\* C18: a call of deconv_multi that satisfies the preconditions places
\* every taper window of the source inside the buffer of nft samples, has
\* window counts of at least 1 for source, noise and response, and does not
\* end in a shape mismatch or a division by zero.
C18_WindowsFit ==
    (MultiPreconditions /\ pc \in {"returned", "raised"}) =>
        LET nft == Len(call.rsp[1])
        IN  /\ \A j \in 0..(Nwin(Len(call.src), call.ntap) - 1) : Js(j, call.ntap) + call.ntap <= nft
            /\ Nwin(Len(call.src), call.ntap) >= 1
            /\ \A c \in 1..Len(call.nse) : Nwin(Len(call.nse[c]), call.ntap) >= 1
            /\ Nwin(nft, call.ntap) - 1 >= 1
            /\ ret.kind \notin {"ValueError", "ZeroDivisionError"}

====
